---- MODULE Spec2Model ----
(***************************************************************************)
(* Model of the content-generation pipeline of Shubham12111/AI-Agents:     *)
(* the search_topics records (main.py, tools/mongo.py), the runs started   *)
(* by POST /topics/search (process_topic) and by POST /generation or       *)
(* run.py (run_analysis_workflow without a topic), and the stages of       *)
(* run_analysis_workflow with the failure handling of each stage.          *)
(*                                                                         *)
(* Every call of a collaborator (document store, language model, article   *)
(* source) either returns or raises; the outcome is an input of the action *)
(* that makes the call.                                                    *)
(***************************************************************************)
EXTENDS Naturals, Integers, Sequences, FiniteSets, Bags, TLC

VARIABLES
    topics,        \* search_topics collection, in insertion order
    writeCount,    \* per Topic: number of status writes the store applied
    runs,          \* one record per run: its position and its locals
    news,          \* news collection: bag of Article records
    generation_logs, \* generation_logs collection: set of records
    french_blogs,  \* french_blogs collection: set of records
    quality_metrics, \* quality_metrics collection: set of records
    questions_collection,     \* questions collection: set of Question records
    answer_plans_collection,  \* answer_plans collection: set of AnswerPlan records
    feedback_collection,      \* feedback collection: set of Feedback records
    final_results_collection, \* final_results collection: set of FinalResult records
    tip_sheets_collection     \* tip_sheets collection: set of TipSheet records

\* the collections written by the question loop and by the two agents it calls
analysis_stores ==
    <<questions_collection, answer_plans_collection, feedback_collection,
      final_results_collection, tip_sheets_collection>>

vars == <<topics, writeCount, runs, news, generation_logs, french_blogs, quality_metrics,
          analysis_stores>>

stores == <<news, generation_logs, french_blogs, quality_metrics, analysis_stores>>

-----------------------------------------------------------------------------
(* Bounds of the model *)

MaxRuns == 2

MaxArticles == 2

SysArticles == 1

MaxQuestions == 1

\* tokens in one line of a model answer
MaxLineLen == 3

\* lines in a model answer, before its last newline
MaxAnswerLines == 2

-----------------------------------------------------------------------------
(* Values *)

\* Python's None for the optional topic argument
NoTopic == "<None>"

TopicTexts == {"", "digital banking"}

\* the topics submitted while runs interleave
SysTopicTexts == {"digital banking"}

Terminal == {"completed", "failed"}

Runs == 1..MaxRuns

\* Python truthiness of the topic string: None and "" are falsy
Truthy(topic) == topic # NoTopic /\ topic # ""

\* str(uuid.uuid4()): the n-th identifier drawn by run r (never null, never reused)
NewId(r, n) == 2 * (r - 1) + n

\* the record rec with the fields of upd replaced (the fields of upd are fields of rec)
Merge(rec, upd) == upd @@ rec

FreeRun ==
    [kind |-> "free", pc |-> "free", topic_id |-> 0, topic |-> NoTopic,
     cd_topic |-> NoTopic, cd_topic_id |-> 0,
     articles |-> <<>>, idx |-> 0, saved_articles |-> <<>>, save_fails |-> 0,
     collection_id |-> 0, cd_collection_id |-> 0,
     message |-> [kind |-> "none", count |-> 0, text |-> ""],
     out_articles |-> <<>>,
     cd_result |-> "none", cd_excs |-> {}, log_saved |-> FALSE,
     exc |-> "", gq_exc |-> "", raw_questions |-> <<>>, gq_excs |-> {},
     questions |-> <<>>, qi |-> 0, findings |-> <<>>, all_bullet_points |-> <<>>,
     cycle_excs |-> {},
     failed_questions |-> {}, tip_exc |-> "", tip_save |-> "none", content |-> <<>>,
     final_tips |-> <<>>, wf_result |-> "none", failed_stage |-> "none",
     blog_saved |-> FALSE, quality_failed |-> FALSE,
     issued |-> <<>>, update_applied |-> FALSE, failed_write_rejected |-> FALSE,
     response |-> "none", outcome |-> "none"]

\* the fetched list: n entries, headline i at position i; the positions in bad
\* hold an entry that is not a mapping
Fetched(n, bad) == [i \in 1..n |-> [isdict |-> i \notin bad, headline |-> i]]

\* the Article record save_news_to_mongodb inserts for an article
NewsRecord(article) ==
    [title |-> article.headline, status |-> "collected", notion_link |-> "None"]

\* no record of the analysis has been inserted
NoAnalysisRecords ==
    /\ questions_collection = {}
    /\ answer_plans_collection = {}
    /\ feedback_collection = {}
    /\ final_results_collection = {}
    /\ tip_sheets_collection = {}

Init ==
    /\ topics = <<>>
    /\ writeCount = <<>>
    /\ runs = [r \in Runs |-> FreeRun]
    /\ news = EmptyBag
    /\ generation_logs = {}
    /\ french_blogs = {}
    /\ quality_metrics = {}
    /\ NoAnalysisRecords

-----------------------------------------------------------------------------
(* The search_topics collection *)

\* save_search_topic_to_mongodb
NewTopicRecord(id, topic) ==
    [id |-> id, topic |-> topic, status |-> "pending", collection_id |-> 0,
     error |-> "", result |-> ""]

\* get_pending_search_topics: find({"status": "pending"}), in insertion order
get_pending_search_topics == SelectSeq(topics, LAMBDA t : t.status = "pending")

\* update_search_topic_status: update_one({"id": topic_id}, {"$set": {"status": status}})
update_search_topic_status(topic_id, status) ==
    /\ topics' = [topics EXCEPT ![topic_id] = [@ EXCEPT !.status = status]]
    /\ writeCount' = [writeCount EXCEPT ![topic_id] = @ + 1]

\* the message of the exception of a store call that raised
StoreError == "store unavailable"

\* a store call that raised changes nothing
StoreUnchanged == UNCHANGED <<topics, writeCount>>

SetRun(r, upd) == runs' = [runs EXCEPT ![r] = Merge(@, upd)]

FirstFree == CHOOSE r \in Runs : runs[r].kind = "free" /\ \A q \in 1..(r - 1) : runs[q].kind # "free"

-----------------------------------------------------------------------------
(* Entry points *)

\* POST /topics/search: save the topic as pending, create the task process_topic and
\* return the acknowledgment; if save_search_topic_to_mongodb raises (ok is FALSE), no
\* Topic is saved, no task is created and the handler raises HTTPException(500)
create_search_topic(text, ok) ==
    /\ \E r \in Runs : runs[r].kind = "free"
    /\ LET id == Len(topics) + 1
           r == FirstFree
       IN IF ok
             THEN /\ topics' = Append(topics, NewTopicRecord(id, text))
                  /\ writeCount' = Append(writeCount, 0)
                  /\ SetRun(r, [kind |-> "topic", topic_id |-> id, topic |-> text,
                                cd_topic |-> text, response |-> "success",
                                pc |-> "cd_fetch"])
             ELSE /\ StoreUnchanged
                  /\ SetRun(r, [kind |-> "rejected", topic |-> text, exc |-> StoreError,
                                response |-> "HTTP 500", pc |-> "done"])
    /\ UNCHANGED stores

\* POST /generation and run.py: run_analysis_workflow() with no topic
start_analysis ==
    /\ \E r \in Runs : runs[r].kind = "free"
    /\ SetRun(FirstFree, [kind |-> "gen", pc |-> "cd_get_pending"])
    /\ UNCHANGED <<topics, writeCount, stores>>

-----------------------------------------------------------------------------
(* run_analysis_workflow: how it ends *)

\* the workflow raises msg at stage: both handlers of run_analysis_workflow log and
\* re-raise; process_topic catches it, run_analysis_task and run.py print it
WorkflowRaises(r, msg, stage) ==
    [wf_result |-> "raised", exc |-> msg, failed_stage |-> stage,
     pc |-> IF runs[r].kind = "topic" THEN "pt_except" ELSE "done",
     outcome |-> IF runs[r].kind = "topic" THEN "none" ELSE "raised"]

\* the workflow returns collection_id to its caller
WorkflowReturns(r) ==
    [wf_result |-> "returned",
     pc |-> IF runs[r].kind = "topic" THEN "pt_update_completed" ELSE "done",
     outcome |-> IF runs[r].kind = "topic" THEN "none" ELSE "ok"]

-----------------------------------------------------------------------------
(* CollectionAgent.collect_data *)

FetchError == "article source unavailable"

AttributeError == "object has no attribute get"

\* the guard of the three status updates of collect_data: if topic and topic_id
TracksTopic(r) == Truthy(runs[r].cd_topic) /\ runs[r].cd_topic_id # 0

\* collect_data returns (collection_id, output_data) to run_analysis_workflow, which
\* raises if the collection_id is null
CollectReturns(r, cid, articles, message) ==
    [cd_result |-> "returned", collection_id |-> cid, out_articles |-> articles,
     message |-> message] @@
    (IF cid = 0
        THEN WorkflowRaises(r, "Failed to generate collection ID during data collection",
                            "collect_data")
        ELSE [pc |-> "generate_questions"])

\* the normal return of collect_data
ReturnCollected(r) ==
    CollectReturns(r, runs[r].cd_collection_id, runs[r].saved_articles,
                   [kind |-> "collected", count |-> Len(runs[r].saved_articles), text |-> ""])

\* the return of the outer handler: a fresh id, no articles, the error as message
ReturnError(r) ==
    CollectReturns(r, NewId(r, 2), <<>>,
                   [kind |-> "error", count |-> 0, text |-> runs[r].exc])

\* an exception reaches the outer handler of collect_data
ToOuterHandler(r, msg, site) ==
    [pc |-> "cd_except", exc |-> msg, cd_excs |-> runs[r].cd_excs \cup {site}]

\* topic is None: adopt the first pending Topic, if there is one
cd_get_pending(r, ok) ==
    /\ runs[r].pc = "cd_get_pending"
    /\ IF ok
          THEN LET pending_topics == get_pending_search_topics
               IN IF pending_topics # <<>>
                     THEN SetRun(r, [cd_topic |-> pending_topics[1].topic,
                                     cd_topic_id |-> pending_topics[1].id,
                                     pc |-> "cd_fetch"])
                     ELSE SetRun(r, [pc |-> "cd_fetch"])
          ELSE SetRun(r, ToOuterHandler(r, StoreError, "pending"))
    /\ UNCHANGED <<topics, writeCount, stores>>

\* topic_news_tool.func(topic) or news_tool.func(""), then the logging loop, which
\* calls article.get on every entry, then collection_id = str(uuid.uuid4()).
\* tool_raises: the news tool in use can raise (get_topic_news and
\* get_latest_africa_news catch every exception and return a list of mappings)
cd_fetch(r, ok, n, bad, tool_raises) ==
    /\ runs[r].pc = "cd_fetch"
    /\ ok \/ tool_raises
    /\ IF ~ok
          THEN SetRun(r, ToOuterHandler(r, FetchError, "fetch"))
          ELSE IF bad # {}
                  THEN SetRun(r, [articles |-> Fetched(n, bad)] @@
                                 ToOuterHandler(r, AttributeError, "article"))
                  ELSE SetRun(r, [articles |-> Fetched(n, bad),
                                  cd_collection_id |-> NewId(r, 1),
                                  saved_articles |-> <<>>, idx |-> 1,
                                  pc |-> IF n = 0 THEN "cd_save_log" ELSE "cd_save_article"])
    /\ UNCHANGED <<topics, writeCount, stores>>

\* a collector that records the article before its save has succeeded
SavedAfterAppendFirst(saved, article, ok) == Append(saved, article)

\* saved_articles after the try block of one article
SavedAfter(saved, article, ok) == IF ok THEN Append(saved, article) ELSE saved

\* one iteration of the loop over articles: save_news for a mapping
cd_save_article(r, ok) ==
    /\ runs[r].pc = "cd_save_article"
    /\ LET article == runs[r].articles[runs[r].idx]
           last == runs[r].idx = Len(runs[r].articles)
           next == [idx |-> runs[r].idx + 1,
                    pc |-> IF last THEN "cd_save_log" ELSE "cd_save_article"]
       IN IF article.isdict
             THEN /\ news' = IF ok THEN news (+) SetToBag({NewsRecord(article)}) ELSE news
                  /\ SetRun(r, [saved_articles |-> SavedAfter(runs[r].saved_articles, article, ok),
                                save_fails |-> runs[r].save_fails + (IF ok THEN 0 ELSE 1)] @@ next)
             ELSE /\ ok
                  /\ news' = news
                  /\ SetRun(r, next)
    /\ UNCHANGED <<topics, writeCount, generation_logs, french_blogs, quality_metrics,
                 analysis_stores>>

\* the record save_generation_log_to_mongodb inserts
GenerationLog(r) ==
    [parent_id |-> runs[r].cd_collection_id, parent_type |-> "news",
     sources_analyzed |-> Len(runs[r].saved_articles),
     sources_used |-> Len(runs[r].saved_articles),
     source_titles |-> [i \in 1..Len(runs[r].saved_articles) |-> runs[r].saved_articles[i].headline]]

\* the inner try: save_generation_log
cd_save_log(r, ok) ==
    /\ runs[r].pc = "cd_save_log"
    /\ IF ok
          THEN /\ generation_logs' = generation_logs \cup {GenerationLog(r)}
               /\ IF TracksTopic(r)
                     THEN SetRun(r, [log_saved |-> TRUE, pc |-> "cd_update_completed"])
                     ELSE SetRun(r, [log_saved |-> TRUE] @@ ReturnCollected(r))
          ELSE /\ generation_logs' = generation_logs
               /\ IF TracksTopic(r)
                     THEN SetRun(r, [cd_excs |-> runs[r].cd_excs \cup {"save_log"},
                                     exc |-> StoreError, pc |-> "cd_update_failed"])
                     ELSE SetRun(r, [cd_excs |-> runs[r].cd_excs \cup {"save_log"}]
                                    @@ ReturnCollected(r))
    /\ UNCHANGED <<topics, writeCount, news, french_blogs, quality_metrics,
                 analysis_stores>>

\* still in the inner try: update_search_topic_status(topic_id, "completed")
cd_update_completed(r, ok) ==
    /\ runs[r].pc = "cd_update_completed"
    /\ IF ok
          THEN /\ update_search_topic_status(runs[r].cd_topic_id, "completed")
               /\ SetRun(r, ReturnCollected(r))
          ELSE /\ StoreUnchanged
               /\ SetRun(r, [cd_excs |-> runs[r].cd_excs \cup {"status"},
                             exc |-> StoreError, pc |-> "cd_update_failed"])
    /\ UNCHANGED stores

\* the handler of the inner try: update_search_topic_status(topic_id, "failed")
cd_update_failed(r, ok) ==
    /\ runs[r].pc = "cd_update_failed"
    /\ IF ok
          THEN /\ update_search_topic_status(runs[r].cd_topic_id, "failed")
               /\ SetRun(r, ReturnCollected(r))
          ELSE /\ StoreUnchanged
               /\ SetRun(r, ToOuterHandler(r, StoreError, "status"))
    /\ UNCHANGED stores

\* the outer handler: mark the tracked Topic failed, return a fresh id and no articles
cd_except(r, ok) ==
    /\ runs[r].pc = "cd_except"
    /\ IF TracksTopic(r)
          THEN IF ok
                  THEN /\ update_search_topic_status(runs[r].cd_topic_id, "failed")
                       /\ SetRun(r, ReturnError(r))
                  ELSE /\ StoreUnchanged
                       /\ SetRun(r, [cd_result |-> "raised",
                                     cd_excs |-> runs[r].cd_excs \cup {"status"}]
                                    @@ WorkflowRaises(r, StoreError, "collect_data"))
          ELSE /\ ok
               /\ StoreUnchanged
               /\ SetRun(r, ReturnError(r))
    /\ UNCHANGED stores

collect_data(r, n, bad, tool_raises) ==
    \E raises \in BOOLEAN : LET ok == ~raises IN
        \/ cd_get_pending(r, ok)
        \/ cd_fetch(r, ok, n, bad, tool_raises)
        \/ cd_save_article(r, ok)
        \/ cd_save_log(r, ok)
        \/ cd_update_completed(r, ok)
        \/ cd_update_failed(r, ok)
        \/ cd_except(r, ok)

-----------------------------------------------------------------------------
(* The stages of run_analysis_workflow after the collection *)

(* A text is the sequence of its tokens: a token is a word (a run of letters) or one  *)
(* other character ("<bullet>" is the character U+2022).                            *)

\* the fixed questions generate_questions returns when its try block raises
DefaultQuestion1 ==
    <<"How", " ", "might", " ", "current", " ", "market", " ", "events", " ",
      "across", " ", "Africa", " ", "impact", " ", "the", " ", "adoption", " ",
      "of", " ", "digital", " ", "financial", " ", "services", "?">>

DefaultQuestion2 ==
    <<"What", " ", "opportunities", " ", "for", " ", "digital", " ",
      "innovation", " ", "emerge", " ", "from", " ", "recent", " ",
      "developments", " ", "in", " ", "different", " ", "African", " ",
      "regions", "?">>

DefaultQuestion3 ==
    <<"How", " ", "should", " ", "financial", " ", "institutions", " ", "adapt",
      " ", "their", " ", "services", " ", "to", " ", "address", " ", "emerging",
      " ", "challenges", " ", "across", " ", "Africa", "?">>

\* a fallback of two questions
DefaultQuestionsShort == <<DefaultQuestion1, DefaultQuestion2>>

\* default_questions
DefaultQuestions == <<DefaultQuestion1, DefaultQuestion2, DefaultQuestion3>>

\* the tokens of the model's answer lines: digits, punctuation, blank, a question word,
\* another word
Tokens == {"1", "2", ".", ")", "-", " ", "<bullet>", "?", "How", "rates"}

\* s.lstrip(chars)
RECURSIVE lstrip(_, _)
lstrip(s, chars) == IF s # <<>> /\ Head(s) \in chars THEN lstrip(Tail(s), chars) ELSE s

\* s.rstrip(chars)
RECURSIVE rstrip(_, _)
rstrip(s, chars) ==
    IF s # <<>> /\ s[Len(s)] \in chars THEN rstrip(SubSeq(s, 1, Len(s) - 1), chars) ELSE s

Whitespace == {" "}

\* s.strip()
strip(s) == rstrip(lstrip(s, Whitespace), Whitespace)

\* the words that contain one of "how", "what", "why", "when", "where", "which" in lower case
QuestionWords == {"How", "What"}

\* any(q in question.lower() for q in ["?", "how", "what", ...])
LooksLikeQuestion(question) ==
    \E i \in 1..Len(question) : question[i] = "?" \/ question[i] \in QuestionWords

\* the characters of lstrip("0123456789.- ")
Numbering == {"0", "1", "2", "3", "4", "5", "6", "7", "8", "9", ".", "-", " "}

\* strip, append "?" unless the text ends with it, then remove the numbering at the start
clean_question(question) ==
    LET stripped == strip(question)
        asked == IF stripped # <<>> /\ stripped[Len(stripped)] = "?"
                    THEN stripped ELSE Append(stripped, "?")
    IN lstrip(asked, Numbering)

\* raw_questions: the stripped lines of the answer that are not empty
raw_questions(lines) ==
    SelectSeq([i \in 1..Len(lines) |-> strip(lines[i])], LAMBDA q : q # <<>>)

\* a loop that is left at the first save that raises
RECURSIVE processed_until_failure(_, _, _)
processed_until_failure(raw, failed, i) ==
    IF i > Len(raw) THEN <<>>
    ELSE IF LooksLikeQuestion(raw[i]) /\ i \in failed THEN <<>>
    ELSE LET rest == processed_until_failure(raw, failed, i + 1)
         IN IF LooksLikeQuestion(raw[i]) THEN <<clean_question(raw[i])>> \o rest ELSE rest

\* processed_questions: the cleaned candidates whose save succeeded; failed holds the
\* positions in raw_questions whose save raises
RECURSIVE processed_questions(_, _, _)
processed_questions(raw, failed, i) ==
    IF i > Len(raw) THEN <<>>
    ELSE LET rest == processed_questions(raw, failed, i + 1)
         IN IF LooksLikeQuestion(raw[i]) /\ i \notin failed
               THEN <<clean_question(raw[i])>> \o rest
               ELSE rest

\* the locals and the payload of collect_data, dropped once the questions are drawn
CollectLocals ==
    [f \in {"articles", "idx", "saved_articles", "save_fails", "cd_collection_id",
             "message", "out_articles", "cd_excs", "log_saved"} |-> FreeRun[f]]

\* the answers of the model while runs interleave: n numbered question lines
Candidates(n) == [i \in 1..n |-> <<"1", ".", " ", "How", " ", "rates", "?">>]

\* the Question records generate_questions inserts: one per accepted candidate whose
\* save returned, with an id of its own and the collection_id it was given
drafted_questions(r, raw, failed) ==
    {[id |-> <<"drafted_question", r, i>>,
      parent_id |-> runs[r].collection_id,
      parent_type |-> "data_collection",
      question_text |-> clean_question(raw[i])] :
         i \in {j \in 1..Len(raw) : LooksLikeQuestion(raw[j]) /\ j \notin failed}}

\* CollectionAgent.generate_questions: one model call; each accepted candidate is
\* saved, and kept only if its save succeeded; any other exception gives the defaults
generate_questions(r, model_ok, lines, failed) ==
    /\ runs[r].pc = "generate_questions"
    /\ LET raw == raw_questions(lines)
       IN /\ SetRun(r, [questions |-> IF model_ok
                                         THEN processed_questions(raw, failed, 1)
                                         ELSE DefaultQuestions,
                        raw_questions |-> IF model_ok THEN raw ELSE <<>>,
                        gq_excs |-> IF model_ok
                                       THEN {i \in failed : i <= Len(raw) /\ LooksLikeQuestion(raw[i])}
                                       ELSE {},
                        gq_exc |-> IF model_ok THEN "" ELSE "question request failed",
                        qi |-> 1, pc |-> "process_question"] @@ CollectLocals)
          /\ questions_collection' =
                 IF model_ok
                    THEN questions_collection \cup drafted_questions(r, raw, failed)
                    ELSE questions_collection
    /\ UNCHANGED <<topics, writeCount, news, generation_logs, french_blogs, quality_metrics,
                   answer_plans_collection, feedback_collection, final_results_collection,
                   tip_sheets_collection>>

\* where one iteration of the loop over the questions can raise: the save of the
\* Question and the model calls of create_answer_plan (twice) and provide_feedback
QuestionFailures == {"save_question", "create_answer_plan", "provide_feedback", "revise_answer_plan"}

\* the characters of lstrip("-<bullet>")
Markers == {"-", "<bullet>"}

\* a loop that removes the markers and keeps the blanks that follow them
RECURSIVE marked_points_unstripped(_, _)
marked_points_unstripped(raw_points, i) ==
    IF i > Len(raw_points) THEN <<>>
    ELSE LET point == strip(raw_points[i])
             clean_point == lstrip(point, Markers)
             rest == marked_points_unstripped(raw_points, i + 1)
         IN IF point # <<>> /\ Head(point) \in Markers /\ clean_point # <<>>
               THEN <<clean_point>> \o rest
               ELSE rest

\* the loop over raw_points: the stripped lines that start with a marker and are not
\* empty once the markers and the blanks around the rest are removed
RECURSIVE marked_points(_, _)
marked_points(raw_points, i) ==
    IF i > Len(raw_points) THEN <<>>
    ELSE LET point == strip(raw_points[i])
             clean_point == strip(lstrip(point, Markers))
             rest == marked_points(raw_points, i + 1)
         IN IF point # <<>> /\ Head(point) \in Markers /\ clean_point # <<>>
               THEN <<clean_point>> \o rest
               ELSE rest

\* [p.strip() for p in raw_points if p.strip()]
stripped_lines(raw_points) ==
    SelectSeq([i \in 1..Len(raw_points) |-> strip(raw_points[i])], LAMBDA p : p # <<>>)

\* a parser without the second pass over the raw lines
parse_marked_only(raw_points) == marked_points(raw_points, 1)

\* the bullet points of a model answer, given as the lines of content.split("\n")
parse_points(raw_points) ==
    LET bullet_points == marked_points(raw_points, 1)
    IN IF bullet_points # <<>> THEN bullet_points ELSE stripped_lines(raw_points)

NoInsights ==
    <<"No", " ", "specific", " ", "insights", " ", "could", " ", "be", " ",
      "generated", " ", "from", " ", "the", " ", "analysis">>

\* execute_analysis, try block: the parsed points, or the placeholder if there is none
bullet_points_of(raw_points) ==
    IF parse_points(raw_points) # <<>> THEN parse_points(raw_points) ELSE <<NoInsights>>

AnalysisError1 ==
    <<"Analysis", " ", "could", " ", "not", " ", "be", " ", "completed", " ",
      "due", " ", "to", " ", "an", " ", "error">>

AnalysisError2 ==
    <<"Please", " ", "review", " ", "the", " ", "analysis", " ", "plan", " ",
      "and", " ", "try", " ", "again">>

\* execute_analysis, handler: default_points
default_points == <<AnalysisError1, AnalysisError2>>

\* the loop stops at the first question whose iteration raises
break_at_failure(r, outcome) ==
    IF outcome \in QuestionFailures THEN Len(runs[r].questions) + 1 ELSE runs[r].qi + 1

\* the index of the loop after an iteration: the handler logs and continues
next_question(r, outcome) == runs[r].qi + 1

\* the calls of one iteration of the loop, in the order of the loop body: the save of
\* the Question, create_answer_plan, provide_feedback, create_answer_plan(version=2),
\* execute_analysis
Cycle ==
    <<"save_question", "create_answer_plan", "provide_feedback", "revise_answer_plan",
      "execute_analysis">>

StepOf(call) == CHOOSE k \in 1..Len(Cycle) : Cycle[k] = call

\* a loop body in which every call is guarded on its own and returns
ReturnedAlways(outcome, k) == TRUE

\* the k-th call of the iteration returns to the loop body: every call before the one
\* that raises does, and execute_analysis always does
Returned(outcome, k) == IF outcome \in QuestionFailures THEN k < StepOf(outcome) ELSE TRUE

\* datetime.now() at the k-th call of the iteration of question i
Now(i, k) == Len(Cycle) * (i - 1) + k

\* the saves whose exception is caught and logged where it is raised: inside
\* create_answer_plan, provide_feedback and execute_analysis
CycleSaves ==
    {"save_answer_plan_1", "save_feedback", "save_answer_plan_2", "save_final_result"}

\* the saves of the iteration that raise: lost, and the save named by outcome
LostSaves(outcome, lost) ==
    lost \cup (IF outcome = "save_final_result" THEN {"save_final_result"} ELSE {})

\* question_id = str(ObjectId()), drawn at the start of the iteration of question i
QuestionId(r, i) == <<"question", r, i>>

\* a generator of plan ids that depends on the question only
PlanIdOfQuestion(r, i, version) == <<"answer_plan", r, i, 1>>

\* plan_id = str(uuid.uuid4()), drawn by each call of create_answer_plan
PlanId(r, i, version) == <<"answer_plan", r, i, version>>

\* the texts the model returns for a plan and for a feedback
PlanTexts == {"plan a", "plan b"}

FeedbackText == "feedback"

FeedbackTexts == {FeedbackText, "other feedback"}

\* the prompt of create_answer_plan: the instructions around the question
plan_prompt(question) ==
    <<"Create a detailed analysis plan to answer the following question:">> \o question \o
    <<"The plan should:">>

\* a revision that is asked to take the feedback into account
revision_input_with_feedback(question, feedback_text) == question \o <<feedback_text>>

\* create_answer_plan(question_id=question_id, question=question, version=2): what
\* the second call is given to build its prompt from
revision_input(question, feedback_text) == question

\* the model call of create_answer_plan, then the save of the AnswerPlan; the call
\* returns (plan_id, plan_text) whether the save raised or not
create_answer_plan(r, i, version, plan_text, saved) ==
    IF saved
       THEN {[id |-> PlanId(r, i, version), question_id |-> QuestionId(r, i),
              version |-> version, plan_text |-> plan_text,
              created_at |-> Now(i, IF version = 1 THEN 2 ELSE 4)]}
       ELSE {}

\* the model call of provide_feedback(plan_id, plan_text), then the save of the Feedback
provide_feedback(r, i, feedback_text, saved) ==
    IF saved
       THEN {[id |-> <<"feedback", r, i>>, answer_plan_id |-> PlanId(r, i, 1),
              feedback_text |-> feedback_text, created_at |-> Now(i, 3)]}
       ELSE {}

\* the save of the FinalResult inside execute_analysis, in the try block or in the handler
save_final_result(r, i, bullet_points, saved) ==
    IF saved
       THEN {[id |-> <<"final_result", r, i>>, question_id |-> QuestionId(r, i),
              bullet_points |-> bullet_points, created_at |-> Now(i, 5)]}
       ELSE {}

\* an analysis that is run on the first draft of the plan
analysis_input_draft(plan_text, revised_plan_text) == plan_text

\* execute_analysis(question_id, question, plan_text=revised_plan_text)
analysis_input(plan_text, revised_plan_text) == revised_plan_text

\* a loop in which a save that raises inside an agent ends the iteration
aborts_on_lost_save(outcome, lost) == outcome \in QuestionFailures \/ lost # {}

\* the iteration is left through the handler of the loop: a call of QuestionFailures raised
aborts(outcome, lost) == outcome \in QuestionFailures

Digits == <<"1", "2", "3", "4", "5", "6", "7", "8", "9">>

\* f"\nQuestion {i}: {question}"
Header(i, question) == <<"\n", "Question", " ", Digits[i], ":", " ">> \o question

FindingsLine == <<"Findings", ":">>

Separator == <<"\n">>

\* a merge that puts the findings of the later question first
extend_front(all_bullet_points, items) == items \o all_bullet_points

\* all_bullet_points.extend(items)
extend(all_bullet_points, items) == all_bullet_points \o items

\* one iteration of the loop over the questions. outcome: the call that raises, or
\* "ok", or "save_final_result" (logged inside execute_analysis); response: the lines
\* of the answer of the model in execute_analysis; lost: the saves of CycleSaves that
\* raise; plan_text, revised_plan_text: the answers of the model in the two calls of
\* create_answer_plan; feedback_text: the answer of the model in provide_feedback. execute_analysis catches the exception of its model call and
\* returns default_points, so the header and the points are added to
\* all_bullet_points unless an earlier call raised.
process_question(r, outcome, response, lost, plan_text, feedback_text, revised_plan_text) ==
    /\ runs[r].pc = "process_question"
    /\ runs[r].qi <= Len(runs[r].questions)
    /\ LET i == runs[r].qi
           question == runs[r].questions[i]
           bullet_points == IF outcome = "execute_analysis"
                               THEN default_points
                               ELSE bullet_points_of(response)
           lost_saves == LostSaves(outcome, lost)
           entry == [question |-> i,
                     parsed |-> outcome # "execute_analysis",
                     response |-> IF outcome = "execute_analysis" THEN <<>> ELSE response,
                     bullet_points |-> bullet_points,
                     plan_text |-> plan_text,
                     revised_plan_text |-> revised_plan_text,
                     feedback |-> feedback_text,
                     revision_prompt |-> plan_prompt(revision_input(question, feedback_text)),
                     analysed_plan |-> analysis_input(plan_text, revised_plan_text)]
           raised == (IF outcome = "ok" THEN {} ELSE {outcome}) \cup
                     {save \in lost_saves :
                         \/ save = "save_answer_plan_1" /\ Returned(outcome, 2)
                         \/ save = "save_feedback" /\ Returned(outcome, 3)
                         \/ save = "save_answer_plan_2" /\ Returned(outcome, 4)
                         \/ save = "save_final_result" /\ Returned(outcome, 5)}
       IN /\ SetRun(r, [qi |-> next_question(r, outcome),
                        failed_questions |->
                            IF outcome \in QuestionFailures \cup {"execute_analysis"}
                               THEN runs[r].failed_questions \cup {i}
                               ELSE runs[r].failed_questions,
                        cycle_excs |-> runs[r].cycle_excs \cup {<<i, call>> : call \in raised},
                        findings |-> IF aborts(outcome, lost)
                                        THEN runs[r].findings
                                        ELSE Append(runs[r].findings, entry),
                        all_bullet_points |->
                            IF aborts(outcome, lost)
                               THEN runs[r].all_bullet_points
                               ELSE extend(runs[r].all_bullet_points,
                                           <<Header(i, question), FindingsLine>> \o
                                           bullet_points \o <<Separator>>)])
          /\ questions_collection' =
                 IF Returned(outcome, 1)
                    THEN questions_collection \cup
                         {[id |-> QuestionId(r, i), parent_id |-> runs[r].collection_id,
                           parent_type |-> "data_collection", question_text |-> question]}
                    ELSE questions_collection
          /\ answer_plans_collection' =
                 answer_plans_collection \cup
                 create_answer_plan(r, i, 1, plan_text,
                                    Returned(outcome, 2) /\ "save_answer_plan_1" \notin lost_saves) \cup
                 create_answer_plan(r, i, 2, revised_plan_text,
                                    Returned(outcome, 4) /\ "save_answer_plan_2" \notin lost_saves)
          /\ feedback_collection' =
                 feedback_collection \cup
                 provide_feedback(r, i, feedback_text,
                                  Returned(outcome, 3) /\ "save_feedback" \notin lost_saves)
          /\ final_results_collection' =
                 final_results_collection \cup
                 save_final_result(r, i, bullet_points,
                                   Returned(outcome, 5) /\ "save_final_result" \notin lost_saves)
    /\ UNCHANGED <<topics, writeCount, news, generation_logs, french_blogs, quality_metrics,
                   tip_sheets_collection>>

DefaultTip1 ==
    <<"Consider", " ", "the", " ", "broader", " ", "economic", " ", "implications",
      " ", "of", " ", "current", " ", "events">>

DefaultTip2 ==
    <<"Focus", " ", "on", " ", "digital", " ", "transformation", " ",
      "opportunities">>

DefaultTip3 ==
    <<"Prepare", " ", "for", " ", "emerging", " ", "challenges", " ", "in", " ",
      "the", " ", "financial", " ", "sector">>

\* a fallback of two tips
DefaultTipsShort == <<DefaultTip1, DefaultTip2>>

\* generate_tip_sheet, handler: default_points
DefaultTips == <<DefaultTip1, DefaultTip2, DefaultTip3>>

\* ReviewAgent.generate_tip_sheet(parent_id, all_bullet_points): one model call on the
\* findings, whatever their number; the points parsed from its answer (response), or
\* DefaultTips when the call raises; in both cases the list is saved as a TipSheet,
\* and a failed save is only logged.
generate_tip_sheet(r, ok, response, save_ok) ==
    /\ runs[r].pc = "process_question"
    /\ runs[r].qi > Len(runs[r].questions)
    /\ LET final_bullet_points == IF ok THEN parse_points(response) ELSE DefaultTips
       IN /\ SetRun(r, [final_tips |-> final_bullet_points,
                        tip_exc |-> IF ok THEN "" ELSE "tip sheet request failed",
                        tip_save |-> IF save_ok THEN "saved" ELSE "failed",
                        gq_exc |-> "", raw_questions |-> <<>>, gq_excs |-> {}, qi |-> 0,
                        pc |-> "convert_tip_to_french"])
          /\ tip_sheets_collection' =
                 IF save_ok
                    THEN tip_sheets_collection \cup
                         {[id |-> <<"tip_sheet", r>>, parent_id |-> runs[r].collection_id,
                           parent_type |-> "insights",
                           final_bullet_points |-> final_bullet_points]}
                    ELSE tip_sheets_collection
    /\ UNCHANGED <<topics, writeCount, news, generation_logs, french_blogs, quality_metrics,
                   questions_collection, answer_plans_collection, feedback_collection,
                   final_results_collection>>

\* convert_tip_to_french: the model call is outside any try; only the save is guarded
convert_tip_to_french(r, outcome) ==
    /\ runs[r].pc = "convert_tip_to_french"
    /\ LET locals == [final_tips |-> <<>>, questions |-> <<>>, findings |-> <<>>,
                      all_bullet_points |-> <<>>, cycle_excs |-> {},
                      failed_questions |-> {}, tip_exc |-> "", tip_save |-> "none"]
       IN IF outcome = "raise"
             THEN SetRun(r, locals @@ WorkflowRaises(r, "translation request failed",
                                                     "convert_tip_to_french"))
             ELSE SetRun(r, locals @@ [pc |-> "analyze_style"])
    /\ UNCHANGED <<topics, writeCount, stores>>

\* analyze_style: raises when the language model of spacy cannot be loaded or applied
analyze_style(r, ok) ==
    /\ runs[r].pc = "analyze_style"
    /\ IF ok
          THEN SetRun(r, [pc |-> "blog_generated"])
          ELSE SetRun(r, WorkflowRaises(r, "name 'nlp' is not defined", "analyze_style"))
    /\ UNCHANGED <<topics, writeCount, stores>>

\* blog_generated, then the test hasattr(blog_generation, "content"); content: the
\* lines of blog_generation.content
blog_generated(r, outcome, content) ==
    /\ runs[r].pc = "blog_generated"
    /\ CASE outcome = "content" -> SetRun(r, [content |-> content, pc |-> "save_french_blog"])
         [] outcome = "no_content" ->
                SetRun(r, WorkflowRaises(r, "Blog generation failed: No content in response",
                                         "no_content"))
         [] OTHER -> SetRun(r, WorkflowRaises(r, "generation request failed", "blog_generated"))
    /\ UNCHANGED <<topics, writeCount, stores>>

\* line.strip("# ")
strip_heading(line) == rstrip(lstrip(line, {"#", " "}), {"#", " "})

\* an extraction that takes a line for a heading if it starts with "#" after its blanks
RECURSIVE headings_indented(_, _)
headings_indented(lines, i) ==
    IF i > Len(lines) THEN <<>>
    ELSE LET line == lines[i]
             rest == headings_indented(lines, i + 1)
         IN IF strip(line) # <<>> /\ Head(strip(line)) = "#"
               THEN <<strip_heading(line)>> \o rest
               ELSE rest

\* the loop over blog_content.split("\n"): if line.startswith("#"): headings.append(...)
RECURSIVE headings_of(_, _)
headings_of(lines, i) ==
    IF i > Len(lines) THEN <<>>
    ELSE LET line == lines[i]
             rest == headings_of(lines, i + 1)
         IN IF line # <<>> /\ Head(line) = "#"
               THEN <<strip_heading(line)>> \o rest
               ELSE rest

\* the record save_french_blog_to_mongodb inserts
FrenchBlog(r) ==
    LET headings == headings_of(runs[r].content, 1)
    IN [collection_id |-> runs[r].collection_id,
        content |-> runs[r].content,
        headings |-> headings,
        status |-> "draft",
        metadata |-> [has_headings |-> Len(headings) > 0, heading_count |-> Len(headings)]]

\* a workflow that returns as soon as the blog is saved
save_french_blog_and_return(r, ok) ==
    /\ runs[r].pc = "save_french_blog"
    /\ IF ok
          THEN /\ french_blogs' = french_blogs \cup {FrenchBlog(r)}
               /\ SetRun(r, [blog_saved |-> TRUE] @@ WorkflowReturns(r))
          ELSE /\ french_blogs' = french_blogs
               /\ SetRun(r, WorkflowRaises(r, "Failed to save French blog: store unavailable",
                                           "save_french_blog"))
    /\ UNCHANGED <<topics, writeCount, news, generation_logs, quality_metrics,
                   analysis_stores>>

\* save_french_blog_tool.func: any exception is raised again as "Failed to save French blog"
save_french_blog(r, ok) ==
    /\ runs[r].pc = "save_french_blog"
    /\ IF ok
          THEN /\ french_blogs' = french_blogs \cup {FrenchBlog(r)}
               /\ SetRun(r, [blog_saved |-> TRUE, pc |-> "blog_quality_metrics"])
          ELSE /\ french_blogs' = french_blogs
               /\ SetRun(r, WorkflowRaises(r, "Failed to save French blog: store unavailable",
                                           "save_french_blog"))
    /\ UNCHANGED <<topics, writeCount, news, generation_logs, quality_metrics,
                 analysis_stores>>

\* the calls of blog_quality_metrics whose exception its handler raises again:
\* detect_ai_content (HTTPException) and trusted_source_score
QualityRaising == {"detect_ai_content", "trusted_source_score"}

\* the calls whose exception is caught inside: verify_facts returns an error record,
\* a failed save of the QualityMetrics is logged
QualityCaught == {"verify_facts", "save_quality_metrics"}

\* blog_quality_metrics(content, collection_id), then return collection_id
blog_quality_metrics(r, outcome) ==
    /\ runs[r].pc = "blog_quality_metrics"
    /\ IF outcome \in QualityRaising
          THEN /\ quality_metrics' = quality_metrics
               /\ SetRun(r, [quality_failed |-> TRUE]
                            @@ WorkflowRaises(r, "OpenAI API request failed", outcome))
          ELSE /\ quality_metrics' =
                      IF outcome = "save_quality_metrics"
                         THEN quality_metrics
                         ELSE quality_metrics \cup
                              {[parent_id |-> runs[r].collection_id, parent_type |-> "metrics",
                                fact_verification |-> IF outcome = "verify_facts"
                                                         THEN "error" ELSE "checked"]}
               /\ SetRun(r, [quality_failed |-> outcome # "ok"] @@ WorkflowReturns(r))
    /\ UNCHANGED <<topics, writeCount, news, generation_logs, french_blogs,
                 analysis_stores>>

-----------------------------------------------------------------------------
(* process_topic: the status of the submitted Topic *)

\* the $set of the success path
CompletedRecord(t, collection_id) ==
    [t EXCEPT !.status = "completed", !.collection_id = collection_id,
              !.result = "Analysis completed successfully"]

\* a handler that records the error and leaves the status as it is
FailedRecordKeepsStatus(t, error_message) == [t EXCEPT !.error = error_message]

\* the $set of the handler
FailedRecord(t, error_message) ==
    [t EXCEPT !.status = "failed", !.error = error_message]

\* if not collection_id: raise; else update_one(... status completed ...)
pt_update_completed(r, ok) ==
    /\ runs[r].pc = "pt_update_completed"
    /\ IF runs[r].collection_id = 0
          THEN /\ ok
               /\ StoreUnchanged
               /\ SetRun(r, [pc |-> "pt_except",
                             exc |-> "Analysis workflow did not return a collection ID"])
          ELSE IF ok
                  THEN /\ topics' = [topics EXCEPT ![runs[r].topic_id] =
                                        CompletedRecord(@, runs[r].collection_id)]
                       /\ writeCount' = [writeCount EXCEPT ![runs[r].topic_id] = @ + 1]
                       /\ SetRun(r, [issued |-> Append(runs[r].issued, "completed"),
                                     update_applied |-> TRUE, pc |-> "pt_verify"])
                  ELSE /\ StoreUnchanged
                       /\ SetRun(r, [issued |-> Append(runs[r].issued, "completed"),
                                     pc |-> "pt_except", exc |-> StoreError])
    /\ UNCHANGED stores

\* raise Exception("Failed to update topic status")
VerifyError == "Failed to update topic status"

\* a verification that accepts whatever it reads
not_confirmed_never(updated_topic) == FALSE

\* updated_topic and updated_topic.get("status") != "completed": find_one returns the
\* record, since no operation deletes a Topic
not_confirmed(updated_topic) == updated_topic.status # "completed"

\* find_one({"id": topic_id}) and the test of the status it returns
pt_verify(r, ok) ==
    /\ runs[r].pc = "pt_verify"
    /\ IF ok
          THEN IF not_confirmed(topics[runs[r].topic_id])
                  THEN SetRun(r, [pc |-> "pt_except", exc |-> VerifyError])
                  ELSE SetRun(r, [pc |-> "done", outcome |-> "ok"])
          ELSE SetRun(r, [pc |-> "pt_except", exc |-> StoreError])
    /\ UNCHANGED <<topics, writeCount, stores>>

\* the handler: update_one(... status failed, error ...), then raise
pt_except(r, ok) ==
    /\ runs[r].pc = "pt_except"
    /\ IF ok
          THEN /\ topics' = [topics EXCEPT ![runs[r].topic_id] = FailedRecord(@, runs[r].exc)]
               /\ writeCount' = [writeCount EXCEPT ![runs[r].topic_id] = @ + 1]
               /\ SetRun(r, [issued |-> Append(runs[r].issued, "failed"),
                             pc |-> "done", outcome |-> "raised"])
          ELSE /\ StoreUnchanged
               /\ SetRun(r, [issued |-> Append(runs[r].issued, "failed"),
                             failed_write_rejected |-> TRUE,
                             pc |-> "done", outcome |-> "raised"])
    /\ UNCHANGED stores

process_topic(r) ==
    \E raises \in BOOLEAN : LET ok == ~raises IN
        \/ pt_update_completed(r, ok)
        \/ pt_verify(r, ok)
        \/ pt_except(r, ok)

-----------------------------------------------------------------------------
(* The system: topics are submitted, topic-less runs are started, runs interleave *)

\* the answer of the model in execute_analysis and in generate_tip_sheet while runs
\* interleave: two lines with a dash, then an empty line
SysAnswer == <<<<"-", " ", "a">>, <<"-", " ", "b">>, <<>>>>

\* the blog generated while runs interleave: a heading and a paragraph
SysContent == <<<<"#", " ", "a">>, <<"a">>>>

\* Step 1 of run_analysis_workflow
collect_stage(r) == \E n \in 0..SysArticles : collect_data(r, n, {}, FALSE)

\* how one iteration of the loop can go: the call that raises (or the save that is
\* logged, or "ok")
Outcomes == QuestionFailures \cup {"execute_analysis", "save_final_result", "ok"}

\* the answers of the model in generate_questions, as a number of question lines, and
\* the positions whose save raises
Drafts == UNION {{[n |-> n, failed |-> failed] : failed \in SUBSET (1..n)} : n \in 0..MaxQuestions}

\* the analysis in which every collaborator answers: MaxQuestions questions, one plan
\* text, a tip sheet with two points
Nominal ==
    [question_calls |-> {TRUE},
     drafts |-> {[n |-> MaxQuestions, failed |-> {}]},
     outcomes |-> {"ok"}, losts |-> {{}}, plans |-> {"plan a"},
     tip_calls |-> {TRUE}, tip_saves |-> {TRUE}, answers |-> {SysAnswer}]

\* Steps 2 and 3 and the tip sheet, with the outcomes of the collaborators drawn from
\* env. question_calls: the outcomes of the model call of generate_questions (TRUE: it
\* answers); drafts: its answers and the saves that raise; outcomes, losts, plans: how
\* an iteration of the loop can go; tip_calls, tip_saves, answers: the outcomes of the
\* model call and of the save of generate_tip_sheet, and the answers of the model
analysis_stages(r, env) ==
    \/ \E model_ok \in env.question_calls : \E draft \in env.drafts :
           generate_questions(r, model_ok, Candidates(draft.n), draft.failed)
    \/ \E outcome \in env.outcomes : \E lost \in env.losts :
       \E plan_text \in env.plans : \E revised_plan_text \in env.plans :
           process_question(r, outcome, SysAnswer, lost, plan_text, FeedbackText, revised_plan_text)
    \/ \E ok \in env.tip_calls : \E save_ok \in env.tip_saves : \E response \in env.answers :
           generate_tip_sheet(r, ok, response, save_ok)

\* the stages after the tip sheet: the translation, the blog, its quality metrics
blog_stages(r) ==
    \/ \E outcome \in {"ok", "save_failed", "raise"} : convert_tip_to_french(r, outcome)
    \/ \E ok \in BOOLEAN : analyze_style(r, ok)
    \/ \E outcome \in {"content", "no_content", "raise"} : blog_generated(r, outcome, SysContent)
    \/ \E ok \in BOOLEAN : save_french_blog(r, ok)
    \/ \E outcome \in QualityRaising \cup QualityCaught \cup {"ok"} : blog_quality_metrics(r, outcome)

\* the stages after the collection. The records of the analysis are read by no stage
\* and by no other run, and the analysis never raises: while runs interleave it is
\* followed on its nominal path (its failures are followed in SpecAnalysis and SpecCycle)
later_stages(r) == analysis_stages(r, Nominal) \/ blog_stages(r)

run_analysis_workflow(r) == collect_stage(r) \/ later_stages(r)

RunStep(r) == run_analysis_workflow(r) \/ process_topic(r)

Next ==
    \/ \E text \in SysTopicTexts : \E ok \in BOOLEAN : create_search_topic(text, ok)
    \/ start_analysis
    \/ \E r \in Runs : RunStep(r)

Spec == Init /\ [][Next]_vars

-----------------------------------------------------------------------------
(* One submitted Topic and the topic-less runs that can adopt it.  Only the        *)
(* collection step of a topic-less run reads or writes search_topics, so a         *)
(* topic-less run is followed up to the return of its collect_data.                *)

MaxSubmissions == 1

LiveStep(r) ==
    \/ collect_stage(r)
    \/ runs[r].kind = "topic" /\ (later_stages(r) \/ process_topic(r))

NextLive ==
    \/ \E text \in SysTopicTexts : Len(topics) < MaxSubmissions /\ create_search_topic(text, TRUE)
    \/ start_analysis
    \/ \E r \in Runs : LiveStep(r)

\* every run that has started runs on: the task of process_topic and the worker
\* thread of run_analysis_task are scheduled until they return or raise
SpecLive == Init /\ [][NextLive]_vars /\ \A r \in Runs : WF_vars(LiveStep(r))

-----------------------------------------------------------------------------
(* One call of collect_data, on any Topic store it can meet *)

TopicStores ==
    UNION {[1..k -> [id : {0}, topic : TopicTexts, status : {"pending", "completed"},
                     collection_id : {0}, error : {""}, result : {""}]] : k \in 0..2}

\* the ids of a store are the positions of its records
Numbered(store) == [i \in 1..Len(store) |-> [store[i] EXCEPT !.id = i]]

\* the caller's arguments: no topic, or a submitted Topic's id and text
CollectCalls(store) ==
    {[kind |-> "gen", topic_id |-> 0, topic |-> NoTopic]} \cup
    {[kind |-> "topic", topic_id |-> i, topic |-> store[i].topic] : i \in 1..Len(store)}

InitCollect ==
    /\ \E store \in TopicStores :
          /\ topics = Numbered(store)
          /\ writeCount = [i \in 1..Len(store) |-> 0]
          /\ \E call \in CollectCalls(store) :
                runs = [r \in Runs |->
                           IF r = 1
                              THEN Merge(FreeRun, call @@
                                         [cd_topic |-> call.topic,
                                          pc |-> IF call.topic = NoTopic
                                                    THEN "cd_get_pending" ELSE "cd_fetch"])
                              ELSE FreeRun]
    /\ news = EmptyBag
    /\ generation_logs = {}
    /\ french_blogs = {}
    /\ quality_metrics = {}
    /\ NoAnalysisRecords

NextCollect ==
    \E n \in 0..MaxArticles : \E bad \in SUBSET (1..n) : \E tool_raises \in BOOLEAN :
        collect_data(1, n, bad, tool_raises)

SpecCollect == InitCollect /\ [][NextCollect]_vars

-----------------------------------------------------------------------------
(* One call of generate_questions, on any one-line answer of the model *)

\* the texts of at most n tokens
Lines(n) == UNION {[1..k -> Tokens] : k \in 0..n}

InitQuestions ==
    /\ topics = <<>>
    /\ writeCount = <<>>
    /\ runs = [r \in Runs |->
                  IF r = 1
                     THEN Merge(FreeRun, [kind |-> "gen", pc |-> "generate_questions",
                                          cd_result |-> "returned",
                                          collection_id |-> NewId(1, 1)])
                     ELSE FreeRun]
    /\ news = EmptyBag
    /\ generation_logs = {}
    /\ french_blogs = {}
    /\ quality_metrics = {}
    /\ NoAnalysisRecords

NextQuestions ==
    \E model_ok \in BOOLEAN : \E line \in Lines(MaxLineLen) : \E failed \in SUBSET {1} :
        generate_questions(1, model_ok, <<line>>, failed)

SpecQuestions == InitQuestions /\ [][NextQuestions]_vars

-----------------------------------------------------------------------------
(* One call of generate_questions, on answers of several lines *)

\* lines in an answer of the model in generate_questions
MaxCandidates == 3

\* the lines of an answer: a numbered question, a question without its mark, a line
\* that is no question, a blank line
CandidateLines ==
    {<<"1", ".", " ", "How", " ", "rates", "?">>, <<"What", " ", "rates">>, <<"rates">>, <<" ">>}

NextCandidates ==
    \E model_ok \in BOOLEAN :
    \E lines \in UNION {[1..k -> CandidateLines] : k \in 0..MaxCandidates} :
    \E failed \in SUBSET (1..MaxCandidates) :
        generate_questions(1, model_ok, lines, failed)

SpecCandidates == InitQuestions /\ [][NextCandidates]_vars

-----------------------------------------------------------------------------
(* The loop over the questions, with calls and saves that raise *)

\* the questions of the run
CycleQuestions == DefaultQuestionsShort

InitCycle ==
    /\ topics = <<>>
    /\ writeCount = <<>>
    /\ runs = [r \in Runs |->
                  IF r = 1
                     THEN Merge(FreeRun, [kind |-> "gen", pc |-> "process_question",
                                          cd_result |-> "returned",
                                          collection_id |-> NewId(1, 1),
                                          questions |-> CycleQuestions, qi |-> 1])
                     ELSE FreeRun]
    /\ news = EmptyBag
    /\ generation_logs = {}
    /\ french_blogs = {}
    /\ quality_metrics = {}
    /\ NoAnalysisRecords

NextCycle ==
    \E outcome \in Outcomes : \E lost \in SUBSET CycleSaves :
    \E plan_text \in PlanTexts : \E revised_plan_text \in PlanTexts :
        process_question(1, outcome, SysAnswer, lost, plan_text, FeedbackText, revised_plan_text)

SpecCycle == InitCycle /\ [][NextCycle]_vars

-----------------------------------------------------------------------------
(* Two executions of the cycle on the same questions, with any feedback *)

InitRevision ==
    /\ topics = <<>>
    /\ writeCount = <<>>
    /\ runs = [r \in Runs |->
                  Merge(FreeRun, [kind |-> "gen", pc |-> "process_question",
                                  cd_result |-> "returned",
                                  collection_id |-> NewId(r, 1),
                                  questions |-> CycleQuestions, qi |-> 1])]
    /\ news = EmptyBag
    /\ generation_logs = {}
    /\ french_blogs = {}
    /\ quality_metrics = {}
    /\ NoAnalysisRecords

NextRevision ==
    \E r \in Runs : \E outcome \in Outcomes : \E feedback_text \in FeedbackTexts :
        process_question(r, outcome, SysAnswer, {}, "plan a", feedback_text, "plan a")

SpecRevision == InitRevision /\ [][NextRevision]_vars

-----------------------------------------------------------------------------
(* One run from generate_questions to the translation of the tip sheet *)

\* the answers of the model in generate_tip_sheet: bullet lines, plain lines, nothing
TipAnswers == {SysAnswer, <<<<"a">>, <<"b">>>>, <<<<>>>>}

\* the analysis in which the model calls and the saves of the workflow and of
\* generate_tip_sheet can raise
AnyAnalysis ==
    [Nominal EXCEPT !.question_calls = BOOLEAN, !.drafts = Drafts, !.outcomes = Outcomes,
                    !.tip_calls = BOOLEAN, !.tip_saves = BOOLEAN, !.answers = TipAnswers]

NextAnalysis ==
    \/ analysis_stages(1, AnyAnalysis)
    \/ \E outcome \in {"ok", "save_failed", "raise"} : convert_tip_to_french(1, outcome)

SpecAnalysis == InitQuestions /\ [][NextAnalysis]_vars

-----------------------------------------------------------------------------
(* One run of run_analysis_workflow without a topic, from its start to its end *)

\* the store holds no Topic, or one pending Topic that the run can adopt
InitRun ==
    /\ \E text \in SysTopicTexts :
          topics \in {<<>>, <<NewTopicRecord(1, text)>>}
    /\ writeCount = [i \in 1..Len(topics) |-> 0]
    /\ runs = [r \in Runs |-> FreeRun]
    /\ news = EmptyBag
    /\ generation_logs = {}
    /\ french_blogs = {}
    /\ quality_metrics = {}
    /\ NoAnalysisRecords

NextRun ==
    \/ runs[1].kind = "free" /\ start_analysis
    \/ collect_stage(1)
    \/ analysis_stages(1, AnyAnalysis)
    \/ blog_stages(1)

SpecRun == InitRun /\ [][NextRun]_vars

-----------------------------------------------------------------------------
(* One iteration of the loop over the questions, on any answer of execute_analysis *)

\* the tokens of an answer of execute_analysis: the markers, blank, two words
PointTokens == {"-", "<bullet>", " ", "a", "b"}

\* content.split("\n") of the answers: up to MaxAnswerLines lines, with or without a
\* newline at the end (which gives an empty last line)
PointTexts ==
    LET line == UNION {[1..k -> PointTokens] : k \in 0..MaxLineLen}
        body == UNION {[1..k -> line] : k \in 1..MaxAnswerLines}
    IN body \cup {Append(t, <<>>) : t \in body}

InitPoints ==
    /\ topics = <<>>
    /\ writeCount = <<>>
    /\ runs = [r \in Runs |->
                  IF r = 1
                     THEN Merge(FreeRun, [kind |-> "gen", pc |-> "process_question",
                                          cd_result |-> "returned",
                                          collection_id |-> NewId(1, 1),
                                          questions |-> <<DefaultQuestion1>>, qi |-> 1])
                     ELSE FreeRun]
    /\ news = EmptyBag
    /\ generation_logs = {}
    /\ french_blogs = {}
    /\ quality_metrics = {}
    /\ NoAnalysisRecords

NextPoints ==
    /\ runs[1].qi <= Len(runs[1].questions)
    /\ \E response \in PointTexts : process_question(1, "ok", response, {}, "plan a", FeedbackText, "plan b")

SpecPoints == InitPoints /\ [][NextPoints]_vars

-----------------------------------------------------------------------------
(* execute_analysis on an answer, then on the joined bullet points of that answer *)

\* characters in a line of the first answer
MaxMarkedLen == 4

ReparseTokens == {"-", " ", "a"}

\* content.split("\n") of the first answer: one or two lines
ReparseTexts ==
    LET line == UNION {[1..k -> ReparseTokens] : k \in 0..MaxMarkedLen}
    IN UNION {[1..k -> line] : k \in 1..2}

\* "\n".join(bullet_points)
RECURSIVE join_lines(_)
join_lines(lines) ==
    IF lines = <<>> THEN <<>>
    ELSE IF Len(lines) = 1 THEN lines[1]
    ELSE lines[1] \o <<"\n">> \o join_lines(Tail(lines))

\* content.split("\n")
RECURSIVE split_lines(_)
split_lines(content) ==
    IF \A k \in 1..Len(content) : content[k] # "\n" THEN <<content>>
    ELSE LET k == CHOOSE j \in 1..Len(content) :
                      content[j] = "\n" /\ \A m \in 1..(j - 1) : content[m] # "\n"
         IN <<SubSeq(content, 1, k - 1)>> \o split_lines(SubSeq(content, k + 1, Len(content)))

\* the first question is analysed on any answer, the second on the answer that is
\* the joined bullet points of the first
NextReparse ==
    \/ /\ runs[1].qi = 1
       /\ \E response \in ReparseTexts :
              process_question(1, "ok", response, {}, "plan a", FeedbackText, "plan b")
    \/ /\ runs[1].qi = 2
       /\ \E response \in {split_lines(join_lines(runs[1].findings[1].bullet_points))} :
              process_question(1, "ok", response, {}, "plan a", FeedbackText, "plan b")

SpecReparse == InitCycle /\ [][NextReparse]_vars

-----------------------------------------------------------------------------
(* execute_analysis and generate_tip_sheet on the same answer of the model *)

NextParsers ==
    \/ /\ runs[1].pc = "process_question" /\ runs[1].qi <= Len(runs[1].questions)
       /\ \E response \in PointTexts :
              process_question(1, "ok", response, {}, "plan a", FeedbackText, "plan b")
    \/ /\ Len(runs[1].findings) = 1
       /\ \E response \in {runs[1].findings[1].response} :
              generate_tip_sheet(1, TRUE, response, TRUE)

SpecParsers == InitPoints /\ [][NextParsers]_vars

-----------------------------------------------------------------------------
(* The save of the blog, on any content *)

\* the tokens of a blog: the heading mark, blank, a word
BlogTokens == {"#", " ", "a"}

\* blog_content.split("\n") of the blogs of at most MaxAnswerLines lines
BlogTexts ==
    LET line == UNION {[1..k -> BlogTokens] : k \in 0..MaxLineLen}
    IN UNION {[1..k -> line] : k \in 1..MaxAnswerLines}

InitBlog ==
    /\ topics = <<>>
    /\ writeCount = <<>>
    /\ runs = [r \in Runs |->
                  IF r = 1
                     THEN Merge(FreeRun, [kind |-> "gen", pc |-> "blog_generated",
                                          cd_result |-> "returned",
                                          collection_id |-> NewId(1, 1)])
                     ELSE FreeRun]
    /\ news = EmptyBag
    /\ generation_logs = {}
    /\ french_blogs = {}
    /\ quality_metrics = {}
    /\ NoAnalysisRecords

NextBlog ==
    \/ /\ runs[1].pc = "blog_generated"
       /\ \E content \in BlogTexts : blog_generated(1, "content", content)
    \/ \E ok \in BOOLEAN : save_french_blog(1, ok)

SpecBlog == InitBlog /\ [][NextBlog]_vars

-----------------------------------------------------------------------------
(* Claims *)

\* the runs that process Topic t: its process_topic task, and every topic-less run
\* whose collect_data adopted it
Processes(r, t) ==
    \/ runs[r].kind = "topic" /\ runs[r].topic_id = t
    \/ runs[r].kind = "gen" /\ runs[r].cd_topic_id = t

\* the Topic a run has: the submitted one or the adopted one (0: none)
TopicOf(r) == IF runs[r].kind = "topic" THEN runs[r].topic_id ELSE runs[r].cd_topic_id

\* C1: once a Topic's status is completed or failed, no step writes the status or
\* changes its value (so the status sequence is a subsequence of
\* pending -> processing -> completed | failed).
C1_TerminalStatusNeverRewritten ==
    [][\A t \in DOMAIN topics :
          topics[t].status \in Terminal =>
              /\ topics'[t].status = topics[t].status
              /\ writeCount'[t] = writeCount[t]]_vars

\* C2: a finished process_topic run has issued exactly one status write.
C2_ExactlyOneStatusWrite ==
    \A r \in Runs :
        runs[r].kind = "topic" /\ runs[r].pc = "done" => Len(runs[r].issued) = 1

\* C3: when a run that has a Topic (submitted or adopted) ends with an exception of
\* run_analysis_workflow, the Topic has status failed and the exception's message as
\* error, and the exception reached the caller (the runs whose status write the store
\* rejected are left aside).
C3_RaisedRunMarksTopicFailed ==
    \A r \in Runs :
        /\ runs[r].pc = "done" /\ runs[r].wf_result = "raised" /\ TopicOf(r) # 0
        /\ runs[r].failed_stage # "collect_data" /\ ~runs[r].failed_write_rejected
        =>
            /\ topics[TopicOf(r)].status = "failed"
            /\ topics[TopicOf(r)].error = runs[r].exc
            /\ runs[r].outcome = "raised"

\* C4: when the workflow returned a collection_id for a submitted topic and the store
\* applied the update, the finished run leaves the Topic completed with the
\* collection_id of the FinalArticle the run persisted.
C4_CompletedTopicCarriesArticleId ==
    \A r \in Runs :
        /\ runs[r].kind = "topic" /\ runs[r].pc = "done"
        /\ runs[r].wf_result = "returned" /\ runs[r].update_applied
        => /\ topics[runs[r].topic_id].status = "completed"
           /\ topics[runs[r].topic_id].collection_id = runs[r].collection_id
           /\ \E b \in french_blogs : b.collection_id = topics[runs[r].topic_id].collection_id

\* C5: once the FinalArticle is persisted, a failure in the quality-scoring stage does
\* not fail the run: the workflow still returns the collection_id.
C5_QualityFailureNeverFailsRun ==
    \A r \in Runs :
        runs[r].blog_saved /\ runs[r].quality_failed =>
            runs[r].wf_result = "returned" /\ runs[r].collection_id # 0

\* C6: no failure of a model call or a persistence write fails the run, except the
\* FinalArticle persistence and a Topic status update (a generation answer without
\* content is no failed call, and it is left aside).
C6_OnlyCommitFailuresFailRun ==
    \A r \in Runs :
        runs[r].wf_result = "raised" =>
            runs[r].failed_stage \in {"save_french_blog", "collect_data", "no_content"}

\* C7: no Topic is processed by two runs.
C7_OneRunPerTopic ==
    \A t \in DOMAIN topics : Cardinality({r \in Runs : Processes(r, t)}) <= 1

FailedWriteRejected(t) ==
    \E r \in Runs : runs[r].kind = "topic" /\ runs[r].topic_id = t
                    /\ runs[r].failed_write_rejected

C9_CollectDataNeverRaises ==
    \A r \in Runs :
        runs[r].cd_result # "none" /\ runs[r].cd_excs # {} =>
            /\ runs[r].cd_result = "returned"
            /\ runs[r].collection_id # 0
            /\ runs[r].collection_id # runs[r].cd_collection_id
            /\ runs[r].out_articles = <<>>
            /\ runs[r].message.kind = "error"
            /\ runs[r].message.text = runs[r].exc

\* collect_data has returned from its try block
CollectedNormally(r) ==
    runs[r].cd_result = "returned" /\ runs[r].message.kind = "collected"

\* s is t with some entries left out, the others in the order of t (the headlines of
\* a fetched list are its positions)
InFetchOrder(s, t) ==
    /\ \A i \in 1..Len(s) : \E j \in 1..Len(t) : s[i] = t[j]
    /\ \A i \in 1..Len(s), j \in 1..Len(s) : i < j => s[i].headline < s[j].headline

\* C10: when collect_data returns normally, the collection_id is not null, the
\* articles it returns are exactly the fetched articles whose Article record was
\* persisted, in fetch order; with no failed save as many as were fetched; and an
\* empty fetch is a success with count zero.
C10_ReturnsPersistedArticlesInOrder ==
    \A r \in Runs :
        CollectedNormally(r) =>
            /\ runs[r].collection_id # 0
            /\ InFetchOrder(runs[r].out_articles, runs[r].articles)
            /\ news = SetToBag({NewsRecord(runs[r].out_articles[i]) :
                                   i \in 1..Len(runs[r].out_articles)})
            /\ Len(runs[r].out_articles) + runs[r].save_fails = Len(runs[r].articles)
            /\ runs[r].save_fails = 0 => Len(runs[r].out_articles) = Len(runs[r].articles)
            /\ runs[r].articles = <<>> =>
                  runs[r].message = [kind |-> "collected", count |-> 0, text |-> ""]

\* C10 witness: two articles fetched, the save of the first failed, the second is
\* the one returned.
C10_Witness ==
    \E r \in Runs :
        /\ CollectedNormally(r)
        /\ Len(runs[r].articles) = 2 /\ runs[r].save_fails = 1
        /\ Len(runs[r].out_articles) = 1 /\ runs[r].out_articles[1].headline = 2

\* the entries of a fetched list that are mappings, in fetch order
WellFormed(articles) == SelectSeq(articles, LAMBDA a : a.isdict)

C12_QuestionFailureGivesThreeDefaults ==
    \A r \in Runs :
        runs[r].gq_exc # "" =>
            /\ runs[r].questions = DefaultQuestions
            /\ Len(runs[r].questions) = 3
            /\ runs[r].pc = "process_question"
            /\ runs[r].wf_result = "none"

\* C12 witness: the model call of generate_questions has failed.
C12_Witness ==
    \E r \in Runs : runs[r].gq_exc # "" /\ runs[r].qi = 1

\* the characters of an enumeration or of punctuation at the start of a line
LeadingMarks == Numbering \cup {")", "<bullet>"}

\* C13: every question generate_questions returns ends with "?" and starts with no
\* enumeration or punctuation character.
C13_QuestionsEndWithMarkAndStartClean ==
    \A r \in Runs : \A i \in 1..Len(runs[r].questions) :
        LET q == runs[r].questions[i]
        IN q # <<>> /\ q[Len(q)] = "?" /\ Head(q) \notin LeadingMarks

\* C14: in the loop over the questions no iteration aborts the run or ends the loop:
\* every question before the current one has been processed, as a finding or as a
\* failed question, and the workflow has not raised.
C14_LoopContinuesAfterFailure ==
    \A r \in Runs :
        runs[r].pc = "process_question" =>
            /\ runs[r].wf_result = "none"
            /\ \A i \in 1..Len(runs[r].questions) :
                   i < runs[r].qi <=>
                       \/ i \in runs[r].failed_questions
                       \/ \E k \in 1..Len(runs[r].findings) : runs[r].findings[k].question = i

\* C14 witness: the first question failed and a later one gave a finding.
C14_Witness ==
    \E r \in Runs :
        /\ runs[r].pc = "process_question"
        /\ 1 \in runs[r].failed_questions
        /\ \E k \in 1..Len(runs[r].findings) :
              runs[r].findings[k].question > 1 /\ runs[r].findings[k].parsed

\* C15: a question with a failed model call contributes nothing to the findings given
\* to the tip-sheet synthesizer.
C15_FailedQuestionContributesNothing ==
    \A r \in Runs : \A k \in 1..Len(runs[r].findings) :
        runs[r].findings[k].question \notin runs[r].failed_questions

\* the bullet points the claim describes for the lines of an answer
ExpectedPoints(raw_points) ==
    LET trimmed == [i \in 1..Len(raw_points) |-> strip(raw_points[i])]
        marked == SelectSeq(trimmed, LAMBDA l : /\ l # <<>>
                                                /\ Head(l) \in Markers
                                                /\ lstrip(l, Markers) # <<>>)
        nonempty == SelectSeq(trimmed, LAMBDA l : l # <<>>)
    IN IF marked # <<>>
          THEN [i \in 1..Len(marked) |-> strip(lstrip(marked[i], Markers))]
          ELSE IF nonempty # <<>> THEN nonempty ELSE <<NoInsights>>

\* C16: the bullet parser of execute_analysis gives the marked lines without their
\* markers if there is one, else the non-empty lines, else the placeholder; so
\* "- a\n- b\n" gives a, b; "a\nb" gives a, b; "" gives the placeholder.
C16_BulletParser ==
    \A r \in Runs : \A k \in 1..Len(runs[r].findings) :
        LET f == runs[r].findings[k]
        IN f.parsed =>
              /\ f.bullet_points = ExpectedPoints(f.response)
              /\ f.response = <<<<"-", " ", "a">>, <<"-", " ", "b">>, <<>>>>
                    => f.bullet_points = <<<<"a">>, <<"b">>>>
              /\ f.response = <<<<"a">>, <<"b">>>> => f.bullet_points = <<<<"a">>, <<"b">>>>
              /\ f.response = <<<<>>>> => f.bullet_points = <<NoInsights>>

\* C16 witness: the answer "- a\n- b\n" has been parsed.
C16_Witness ==
    \E r \in Runs : \E k \in 1..Len(runs[r].findings) :
        /\ runs[r].findings[k].parsed
        /\ runs[r].findings[k].response = <<<<"-", " ", "a">>, <<"-", " ", "b">>, <<>>>>
        /\ runs[r].findings[k].bullet_points = <<<<"a">>, <<"b">>>>

\* C17: generate_tip_sheet never raises: when its model call fails it returns the
\* fixed list of three tips, it has tried to save a TipSheet with that list, and the
\* workflow goes on whether that save succeeded or not.
C17_TipSheetFailureGivesThreeDefaults ==
    \A r \in Runs :
        runs[r].tip_exc # "" =>
            /\ runs[r].final_tips = DefaultTips
            /\ Len(runs[r].final_tips) = 3
            /\ runs[r].tip_save \in {"saved", "failed"}
            /\ runs[r].pc = "convert_tip_to_french"
            /\ runs[r].wf_result = "none"

\* C17 witness: the model call failed and the save of the fallback TipSheet failed too.
C17_Witness ==
    \E r \in Runs : runs[r].tip_exc # "" /\ runs[r].tip_save = "failed"

\* every question of the run failed in its plan-review cycle
AllQuestionsFailed(r) ==
    runs[r].questions # <<>> /\ runs[r].failed_questions = 1..Len(runs[r].questions)

\* C18: when every question has failed, the tip sheet is made from an empty list of
\* findings and it is the fixed list of three tips.
C18_AllFailedGivesDefaultTips ==
    \A r \in Runs :
        runs[r].pc = "convert_tip_to_french" /\ AllQuestionsFailed(r) =>
            /\ runs[r].findings = <<>>
            /\ runs[r].final_tips = DefaultTips

\* the lines of a content that start with "#", in content order
HeadingLines(content) == SelectSeq(content, LAMBDA line : line # <<>> /\ Head(line) = "#")

\* C20: every persisted FinalArticle has as heading_count the number of lines of its
\* content that start with "#", as many headings, in content order, has_headings
\* true exactly when there is one, and status "draft".
C20_HeadingCountMatchesContent ==
    \A b \in french_blogs :
        LET marked == HeadingLines(b.content)
        IN /\ b.metadata.heading_count = Len(marked)
           /\ Len(b.headings) = Len(marked)
           /\ \A k \in 1..Len(marked) : b.headings[k] = strip_heading(marked[k])
           /\ b.metadata.has_headings = (Len(marked) > 0)
           /\ b.status = "draft"

\* C20 witness: a saved blog of two lines of which only the second is a heading (the
\* first has its "#" after a blank).
C20_Witness ==
    \E b \in french_blogs :
        /\ Len(b.content) = 2
        /\ b.content[1] = <<" ", "#", "a">>
        /\ b.content[2] = <<"#", " ", "a">>
        /\ b.metadata.heading_count = 1
        /\ b.headings = <<<<"a">>>>

\* C19: when the generation gives no content or the save of the FinalArticle raises,
\* the workflow raises, no QualityMetrics record is saved for the run, and the Topic
\* of the run is failed (the runs whose failed-status write the store rejected are
\* left aside).
C19_GenerationFailureAbortsRun ==
    \A r \in Runs :
        /\ runs[r].pc = "done"
        /\ runs[r].failed_stage \in {"no_content", "save_french_blog"}
        /\ ~runs[r].failed_write_rejected
        => /\ runs[r].wf_result = "raised" /\ runs[r].outcome = "raised"
           /\ ~\E m \in quality_metrics : m.parent_id = runs[r].collection_id
           /\ TopicOf(r) # 0 => topics[TopicOf(r)].status = "failed"

-----------------------------------------------------------------------------
(* The stages of a run *)

\* the stages of run_analysis_workflow, in the order of its body
Stages ==
    <<"Collecting", "QuestionGeneration", "AnalysisReview", "Synthesis", "Localization",
      "FinalGeneration", "QualityScoring", "Completed">>

CollectingPcs ==
    {"cd_get_pending", "cd_fetch", "cd_save_article", "cd_save_log", "cd_update_completed",
     "cd_update_failed", "cd_except"}

\* the stage a run is in: the stage of the call it makes next, Completed once the
\* workflow has returned, Failed once it has raised
StageOf(run) ==
    CASE run.wf_result = "returned" -> "Completed"
      [] run.wf_result = "raised" -> "Failed"
      [] run.pc \in CollectingPcs -> "Collecting"
      [] run.pc = "generate_questions" -> "QuestionGeneration"
      [] run.pc = "process_question" /\ run.qi <= Len(run.questions) -> "AnalysisReview"
      [] run.pc = "process_question" /\ run.qi > Len(run.questions) -> "Synthesis"
      [] run.pc \in {"convert_tip_to_french", "analyze_style"} -> "Localization"
      [] run.pc \in {"blog_generated", "save_french_blog"} -> "FinalGeneration"
      [] run.pc = "blog_quality_metrics" -> "QualityScoring"
      [] OTHER -> "NotStarted"

Rank(stage) == CHOOSE k \in 1..Len(Stages) : Stages[k] = stage

\* C21: a step of a run leaves it in its stage, or takes it to the next stage of
\* Stages, or to Failed; Completed and Failed are never left; a run starts in
\* Collecting. The only stage that can be passed without a step is AnalysisReview,
\* when generate_questions returns no question (the loop has no iteration).
C21_StagesInOrder ==
    [][\A r \in Runs :
          LET before == StageOf(runs[r])
              after == StageOf(runs'[r])
          IN \/ after = before
             \/ before = "NotStarted" /\ after = "Collecting"
             \/ /\ before \notin {"NotStarted", "Completed", "Failed"}
                /\ \/ after = "Failed"
                   \/ /\ after \notin {"NotStarted", "Failed"}
                      /\ Rank(after) = Rank(before) + 1
                   \/ /\ before = "QuestionGeneration" /\ after = "Synthesis"
                      /\ runs'[r].questions = <<>>]_vars

\* C21 witness: a workflow that has returned, after the save of its blog and the
\* computation of its quality metrics.
C21_Witness ==
    \E r \in Runs :
        /\ StageOf(runs[r]) = "Completed"
        /\ runs[r].blog_saved
        /\ \E m \in quality_metrics : m.parent_id = runs[r].collection_id

-----------------------------------------------------------------------------
(* Who writes a Topic *)

\* the positions of a run inside process_topic, after run_analysis_workflow
ProcessTopicPcs == {"pt_update_completed", "pt_verify", "pt_except"}

\* C22: every step that changes a Topic record is a step of process_topic; no step of
\* collect_data, or of any other component, changes a field of a Topic.
C22_TopicWrittenOnlyByProcessTopic ==
    [][\A t \in 1..Len(topics) :
          topics'[t] # topics[t] =>
              \E r \in Runs : runs'[r] # runs[r] /\ runs[r].pc \in ProcessTopicPcs]_vars

-----------------------------------------------------------------------------
(* The answer of POST /topics/search *)

\* C23: every submission is answered with the acknowledgment, never with an error;
\* and when the run of a submitted Topic has raised, the Topic has the status failed
\* and the message of the exception as its error.
C23_SubmissionAlwaysAccepted ==
    \A r \in Runs :
        /\ runs[r].response \in {"none", "success"}
        /\ runs[r].kind = "topic" /\ runs[r].pc = "done" /\ runs[r].outcome = "raised" =>
               /\ topics[runs[r].topic_id].status = "failed"
               /\ topics[runs[r].topic_id].error = runs[r].exc

-----------------------------------------------------------------------------
(* The correlation key of a run *)

\* the value a record carries as parent_id or as collection_id; 0 if it has neither
CorrelationKey(record) ==
    IF "parent_id" \in DOMAIN record THEN record.parent_id
    ELSE IF "collection_id" \in DOMAIN record THEN record.collection_id
    ELSE 0

\* the records of the chain Article, GenerationLog, Question, TipSheet, FinalArticle,
\* QualityMetrics
ChainRecords ==
    BagToSet(news) \cup generation_logs \cup questions_collection \cup
    tip_sheets_collection \cup french_blogs \cup quality_metrics

\* C24: once collect_data has returned the collection_id of the run, every record the
\* run has persisted in the chain Article, GenerationLog, Question, TipSheet,
\* FinalArticle, QualityMetrics carries it as parent_id or collection_id (one run
\* on a store that holds no record of another run).
C24_EveryRecordCarriesCollectionId ==
    \A r \in Runs :
        runs[r].collection_id # 0 =>
            \A record \in ChainRecords : CorrelationKey(record) = runs[r].collection_id

-----------------------------------------------------------------------------
(* collect_data when the save of the GenerationLog raises *)

\* C25: when the save of the GenerationLog has raised, collect_data returns the
\* collection_id it drew with the articles it saved, and the Topic it adopted, if
\* any, has the status failed.
C25_LogFailureIsNotFatal ==
    \A r \in Runs :
        "save_log" \in runs[r].cd_excs /\ runs[r].cd_result # "none" =>
            /\ runs[r].cd_result = "returned"
            /\ runs[r].collection_id = runs[r].cd_collection_id
            /\ runs[r].out_articles = runs[r].saved_articles
            /\ runs[r].cd_topic_id # 0 => topics[runs[r].cd_topic_id].status = "failed"

-----------------------------------------------------------------------------
(* generate_questions when the save of a question raises *)

\* the positions in raw_questions of the accepted candidates whose save returned
KeptCandidates(r) ==
    {i \in 1..Len(runs[r].raw_questions) :
        LooksLikeQuestion(runs[r].raw_questions[i]) /\ i \notin runs[r].gq_excs}

\* the k-th smallest element of a set of numbers
KthOf(S, k) == CHOOSE i \in S : Cardinality({j \in S : j < i}) = k - 1

\* C26: when the model has answered, generate_questions returns the accepted
\* candidates whose save returned, cleaned, in the order of the answer; a candidate
\* whose save raised is left out and the candidates after it are still processed;
\* the Question records it inserted are those of the returned questions.
C26_FailedSaveDropsOnlyThatQuestion ==
    \A r \in Runs :
        runs[r].pc = "process_question" /\ runs[r].gq_exc = "" /\ runs[r].qi = 1 =>
            LET kept == KeptCandidates(r)
                returned == runs[r].questions
            IN /\ Len(returned) = Cardinality(kept)
               /\ \A k \in 1..Len(returned) :
                      returned[k] = clean_question(runs[r].raw_questions[KthOf(kept, k)])
               /\ {q.question_text : q \in questions_collection} =
                      {returned[k] : k \in 1..Len(returned)}

\* C26 witness: the save of an accepted candidate raised and a later candidate was
\* saved and returned.
C26_Witness ==
    \E r \in Runs :
        /\ runs[r].pc = "process_question" /\ runs[r].gq_exc = ""
        /\ \E i \in runs[r].gq_excs : \E j \in KeptCandidates(r) :
               /\ i < j
               /\ clean_question(runs[r].raw_questions[j]) = runs[r].questions[Len(runs[r].questions)]

-----------------------------------------------------------------------------
(* The cycle of one question: plan, feedback, revised plan, analysis *)

\* the calls that raised in the iteration of question i of run r
RaisedIn(r, i) == {call \in CycleSaves \cup Outcomes : <<i, call>> \in runs[r].cycle_excs}

\* the questions of run r whose iteration is over
Processed(r) ==
    IF runs[r].pc = "process_question" THEN 1..(runs[r].qi - 1) ELSE {}

\* the entries of question i in the findings of run r
EntriesOf(r, i) ==
    {k \in 1..Len(runs[r].findings) : runs[r].findings[k].question = i}

\* items occurs in list from position p on
OccursAt(list, items, p) ==
    /\ p + Len(items) - 1 <= Len(list)
    /\ \A k \in 1..Len(items) : list[p + k - 1] = items[k]

\* the items the iteration of question i adds to all_bullet_points
BlockOf(r, i, bullet_points) ==
    <<Header(i, runs[r].questions[i]), FindingsLine>> \o bullet_points \o <<Separator>>

\* C27: a question in whose iteration only saves of the plan (version 1 or 2), of
\* the feedback or of the final result raised is not a failed question: the plan
\* texts, the feedback text and the bullet points parsed from the answer are those
\* of its one entry in the findings, and its header and bullet points are in
\* all_bullet_points.
C27_LostSaveDoesNotFailQuestion ==
    \A r \in Runs : \A i \in Processed(r) :
        RaisedIn(r, i) # {} /\ RaisedIn(r, i) \subseteq CycleSaves =>
            /\ i \notin runs[r].failed_questions
            /\ Cardinality(EntriesOf(r, i)) = 1
            /\ \A k \in EntriesOf(r, i) :
                   LET entry == runs[r].findings[k]
                   IN /\ entry.plan_text \in PlanTexts
                      /\ entry.revised_plan_text \in PlanTexts
                      /\ entry.feedback = FeedbackText
                      /\ entry.parsed
                      /\ entry.bullet_points = bullet_points_of(entry.response)
                      /\ \E p \in 1..Len(runs[r].all_bullet_points) :
                             OccursAt(runs[r].all_bullet_points,
                                      BlockOf(r, i, entry.bullet_points), p)

\* C27 witness: the four saves of one iteration raised and no record of the cycle
\* of that question was stored.
C27_Witness ==
    \E r \in Runs : \E i \in Processed(r) :
        /\ RaisedIn(r, i) = CycleSaves
        /\ EntriesOf(r, i) # {}
        /\ \A plan \in answer_plans_collection : plan.question_id # QuestionId(r, i)
        /\ \A result \in final_results_collection : result.question_id # QuestionId(r, i)

\* the AnswerPlan records of question i of run r with the given version
PlansOf(r, i, version) ==
    {plan \in answer_plans_collection :
        plan.question_id = QuestionId(r, i) /\ plan.version = version}

\* the Feedback records on the plans of question i of run r
FeedbackOf(r, i) ==
    {feedback \in feedback_collection :
        \E version \in {1, 2} : feedback.answer_plan_id = PlanId(r, i, version)}

\* the FinalResult records of question i of run r
ResultsOf(r, i) ==
    {result \in final_results_collection : result.question_id = QuestionId(r, i)}

\* C28: for every question with findings the analysis was run on the text of the
\* revised plan (version 2); the stored records of its cycle are in the order plan
\* version 1, feedback on the version 1 plan, plan version 2, final result, the
\* stored plans hold the drafted and the revised text, and when no save raised all
\* four records exist.
C28_CycleOrderAndRevisedPlan ==
    \A r \in Runs : \A k \in 1..Len(runs[r].findings) :
        LET entry == runs[r].findings[k]
            i == entry.question
        IN /\ entry.analysed_plan = entry.revised_plan_text
           /\ \A plan \in PlansOf(r, i, 1) : plan.plan_text = entry.plan_text
           /\ \A plan \in PlansOf(r, i, 2) : plan.plan_text = entry.analysed_plan
           /\ \A feedback \in FeedbackOf(r, i) : feedback.answer_plan_id = PlanId(r, i, 1)
           /\ \A first \in PlansOf(r, i, 1) : \A feedback \in FeedbackOf(r, i) :
                  first.created_at < feedback.created_at
           /\ \A first \in PlansOf(r, i, 1) \cup FeedbackOf(r, i) :
              \A revised \in PlansOf(r, i, 2) :
                  first.created_at < revised.created_at
           /\ \A earlier \in PlansOf(r, i, 1) \cup FeedbackOf(r, i) \cup PlansOf(r, i, 2) :
              \A result \in ResultsOf(r, i) :
                  earlier.created_at < result.created_at
           /\ RaisedIn(r, i) = {} =>
                  /\ PlansOf(r, i, 1) # {} /\ FeedbackOf(r, i) # {}
                  /\ PlansOf(r, i, 2) # {} /\ ResultsOf(r, i) # {}

\* C28 witness: a question with findings whose revised plan differs from its first
\* plan and whose four records are stored.
C28_Witness ==
    \E r \in Runs : \E k \in 1..Len(runs[r].findings) :
        LET entry == runs[r].findings[k]
            i == entry.question
        IN /\ entry.plan_text # entry.revised_plan_text
           /\ PlansOf(r, i, 1) # {} /\ FeedbackOf(r, i) # {}
           /\ PlansOf(r, i, 2) # {} /\ ResultsOf(r, i) # {}

-----------------------------------------------------------------------------
(* The AnswerPlan records *)

\* the positions a question can have in the list of questions of a run
QuestionNumbers == 1..Len(Digits)

\* C29: every step keeps the AnswerPlan records it finds, unchanged; after it, a
\* question has at most one record of version 1 and at most one of version 2, no
\* two records have the same id, the records of a question carry its question_id,
\* and a record of version 2 is later than the drafting of version 1 for that
\* question.
C29_AnswerPlansAppendOnly ==
    [][/\ answer_plans_collection \subseteq answer_plans_collection'
       /\ \A plan \in answer_plans_collection' : \A other \in answer_plans_collection' :
              plan.id = other.id => plan = other
       /\ \A plan \in answer_plans_collection' :
              \E r \in Runs : \E i \in QuestionNumbers :
                  /\ plan.question_id = QuestionId(r, i)
                  /\ plan.version \in {1, 2}
                  /\ plan.id = PlanId(r, i, plan.version)
                  /\ plan.version = 2 => plan.created_at > Now(i, StepOf("create_answer_plan"))
       /\ \A r \in Runs : \A i \in QuestionNumbers : \A version \in {1, 2} :
              Cardinality(PlansOf(r, i, version)') <= 1]_vars

\* C29 witness: a question has a stored plan of version 1 and one of version 2.
C29_Witness ==
    \E r \in Runs : \E i \in QuestionNumbers :
        PlansOf(r, i, 1) # {} /\ PlansOf(r, i, 2) # {}

-----------------------------------------------------------------------------
(* The input of the tip sheet *)

\* the items of entry k of the findings of run r in all_bullet_points
BlockOfEntry(r, k) ==
    BlockOf(r, runs[r].findings[k].question, runs[r].findings[k].bullet_points)

\* the positions of all_bullet_points of run r that hold the header of a question
HeaderPositions(r) ==
    {p \in 1..Len(runs[r].all_bullet_points) :
        \E i \in QuestionNumbers :
            i <= Len(runs[r].questions) /\
            runs[r].all_bullet_points[p] = Header(i, runs[r].questions[i])}

\* C30: while the loop over the questions runs and when it is over, the header of
\* every question with findings is in all_bullet_points, followed at once by the
\* line "Findings:", its bullet points and the separator; for two such questions
\* the whole block of the one with the smaller number ends before the block of the
\* other begins; and all_bullet_points holds no other header.
C30_FindingsInQuestionOrder ==
    \A r \in Runs :
        runs[r].pc = "process_question" =>
            LET merged == runs[r].all_bullet_points
                entries == 1..Len(runs[r].findings)
            IN /\ \A a \in entries : \E p \in 1..Len(merged) : OccursAt(merged, BlockOfEntry(r, a), p)
               /\ \A a \in entries : \A b \in entries :
                      runs[r].findings[a].question < runs[r].findings[b].question =>
                          \E p \in 1..Len(merged) : \E q \in 1..Len(merged) :
                              /\ OccursAt(merged, BlockOfEntry(r, a), p)
                              /\ OccursAt(merged, BlockOfEntry(r, b), q)
                              /\ p + Len(BlockOfEntry(r, a)) <= q
               /\ Cardinality(HeaderPositions(r)) = Len(runs[r].findings)

\* C30 witness: the loop is over, the first and the third question have findings
\* and the second has none.
C30_Witness ==
    \E r \in Runs :
        /\ runs[r].pc = "process_question"
        /\ runs[r].qi > Len(runs[r].questions)
        /\ {runs[r].findings[k].question : k \in 1..Len(runs[r].findings)} = {1, 3}
        /\ Len(runs[r].all_bullet_points) > 0

-----------------------------------------------------------------------------
(* process_topic: the verification of the completed status *)

\* the step of run r is the verification of process_topic
VerifyStep(r) == runs[r].pc = "pt_verify" /\ runs'[r].pc # "pt_verify"

\* the step of run r is the handler of process_topic, entered from the verification
\* that read a status other than completed
VerifyHandlerStep(r) ==
    /\ runs[r].pc = "pt_except" /\ runs[r].exc = VerifyError
    /\ runs'[r].pc = "done"

-----------------------------------------------------------------------------
(* The revised plan and the feedback *)

\* the entries of the findings of run r
Entries(r) == {runs[r].findings[k] : k \in 1..Len(runs[r].findings)}

-----------------------------------------------------------------------------
(* The two bullet parsers *)

\* C33: when the model gives generate_tip_sheet the text it gave execute_analysis,
\* the tips are the bullet points of the analysis, for every text.
C33_ParsersAgree ==
    \A r \in Runs :
        /\ runs[r].pc = "convert_tip_to_french" /\ runs[r].tip_exc = ""
        /\ Len(runs[r].findings) = 1
        => runs[r].final_tips = runs[r].findings[1].bullet_points

\* C34 as stated: parsing the joined bullet points of any answer gives the same
\* bullet points again.
C34_ParseIsIdempotent ==
    \A r \in Runs :
        Len(runs[r].findings) = 2 =>
            runs[r].findings[2].bullet_points = runs[r].findings[1].bullet_points

\* C34 amended: parsing the joined bullet points of an answer gives the same bullet
\* points again when none of them starts with a bullet marker.
C34_ParseIsIdempotentWithoutLeadingMarker ==
    \A r \in Runs :
        /\ Len(runs[r].findings) = 2
        /\ \A k \in 1..Len(runs[r].findings[1].bullet_points) :
               Head(runs[r].findings[1].bullet_points[k]) \notin Markers
        => runs[r].findings[2].bullet_points = runs[r].findings[1].bullet_points

\* C34 witness: an answer with a marked line and a line that is dropped; its bullet
\* point has been parsed again and is unchanged.
C34_Witness ==
    \E r \in Runs :
        /\ Len(runs[r].findings) = 2
        /\ runs[r].findings[1].response = <<<<"-", " ", "a">>, <<"a", "a">>>>
        /\ runs[r].findings[1].bullet_points = <<<<"a">>>>
        /\ runs[r].findings[2].response = <<<<"a">>>>
        /\ runs[r].findings[2].bullet_points = <<<<"a">>>>

-----------------------------------------------------------------------------
(* The Question records of a run *)

\* the Question records stored under the collection_id of run r
QuestionsUnder(r) == {q \in questions_collection : q.parent_id = runs[r].collection_id}

\* C35: when the loop over the questions is over and no call of the run raised, the
\* store holds as many Question records under the collection_id of the run as
\* generate_questions returned questions.
C35_QuestionPersistedOnce ==
    \A r \in Runs :
        /\ runs[r].pc = "process_question" /\ runs[r].qi > Len(runs[r].questions)
        /\ runs[r].gq_exc = "" /\ runs[r].gq_excs = {}
        /\ runs[r].cycle_excs = {} /\ runs[r].failed_questions = {}
        /\ runs[r].raw_questions # <<>>
        => Cardinality(QuestionsUnder(r)) = Len(runs[r].questions)

-----------------------------------------------------------------------------
(* The completed status and the final article *)

\* the runs that have written, or can write, the status of Topic t: the run of its
\* process_topic and the runs whose collect_data adopted it
RunsOf(t) == {r \in Runs : runs[r].kind # "free" /\ TopicOf(r) = t}

\* C36: a Topic has status completed only if the French blog of a run that
\* processed it is stored under the collection_id of that run.
C36_CompletedTopicHasFinalArticle ==
    \A t \in DOMAIN topics :
        topics[t].status = "completed" =>
            \E r \in RunsOf(t) : \E blog \in french_blogs :
                blog.collection_id = runs[r].collection_id

-----------------------------------------------------------------------------
(* References between the records of the cycle *)

\* C37: the answer_plan_id of every stored Feedback is the id of a stored AnswerPlan.
C37_FeedbackRefersToStoredPlan ==
    \A feedback \in feedback_collection :
        \E plan \in answer_plans_collection : plan.id = feedback.answer_plan_id

\* the questions of run r whose save raised in the loop
UnsavedQuestions(r) == {i \in QuestionNumbers : <<i, "save_question">> \in runs[r].cycle_excs}

\* C38: the question_id of every stored AnswerPlan and FinalResult is the id of a
\* stored Question; a question whose save raised in the loop has no AnswerPlan, no
\* Feedback and no FinalResult, no entry in the findings and no header in
\* all_bullet_points.
C38_RecordsReferToStoredQuestion ==
    /\ \A record \in answer_plans_collection \cup final_results_collection :
           \E question \in questions_collection : question.id = record.question_id
    /\ \A r \in Runs : \A i \in UnsavedQuestions(r) :
           /\ PlansOf(r, i, 1) = {} /\ PlansOf(r, i, 2) = {}
           /\ FeedbackOf(r, i) = {} /\ ResultsOf(r, i) = {}
           /\ EntriesOf(r, i) = {}
           /\ \A p \in 1..Len(runs[r].all_bullet_points) :
                  runs[r].all_bullet_points[p] # Header(i, runs[r].questions[i])
           /\ \A question \in questions_collection : question.id # QuestionId(r, i)

\* C38 witness: the save of the first question raised, and the second question has
\* its Question, its plans and its final result stored.
C38_Witness ==
    \E r \in Runs :
        /\ 1 \in UnsavedQuestions(r)
        /\ PlansOf(r, 2, 1) # {} /\ PlansOf(r, 2, 2) # {} /\ ResultsOf(r, 2) # {}
        /\ \E question \in questions_collection : question.id = QuestionId(r, 2)

-----------------------------------------------------------------------------
(* The id collect_data returns and the id of its GenerationLog *)

\* the GenerationLog records saved by the call of collect_data of run r: those
\* under the collection_id the call generated
LogsOfCall(r) == {log \in generation_logs : log.parent_id = runs[r].cd_collection_id}

\* C39: when collect_data has returned, every GenerationLog the call saved has the
\* returned collection_id as parent_id.
C39_ReturnedIdIsIdOfLog ==
    \A r \in Runs :
        runs[r].cd_result = "returned" =>
            \A log \in LogsOfCall(r) : log.parent_id = runs[r].collection_id

====
